---- MODULE Spec2Model ----
(***************************************************************************)
(* Content-addressed artifact synchronisation of lean-cli: container push  *)
(* and pull through the data server (presigned object-store URLs plus a    *)
(* confirm call), CLI-bundle push straight to the object store, the        *)
(* archive builder and the streaming hasher.                               *)
(***************************************************************************)
EXTENDS Integers, Sequences, FiniteSets, TLC

(* ------------------------------ bounds -------------------------------- *)
\* the wall clock (seconds) runs from 0 to MaxTime
MaxTime == 1
\* distinct contents a source file / a local runtime image can have: 1..NumContents
NumContents == 2
\* invocations of a command one run of the model starts
MaxOps == 3
\* archives one run of the archive-builder specification builds
MaxBuilds == 2
\* bytes per read of the hashing loops (stands for the 8192 of f.read(8192))
ChunkSize == 2
\* size in bytes of a transferred file: 0..MaxSize
MaxSize == 12
\* bytes per chunk of a transfer: 1..MaxChunk (stands for the 8 MiB chunks)
MaxChunk == 4
\* length in bytes of a hashed file: 0..MaxLen
MaxLen == 5
\* logins one run of the login specification makes
MaxLogins == 2

(* ------------------------------ values -------------------------------- *)
\* no bytes: an object that does not exist, a file not yet written
NoBytes == << >>

Kinds == {"engine", "research"}
CliKind == "cli"
AllKinds == Kinds \cup {CliKind}
Procs == {"p1", "p2"}
Contents == 1..NumContents

Min(a, b) == IF a < b THEN a ELSE b

(* ------------------------------ Hasher -------------------------------- *)
\* A digest is the record of what the hash absorbed (a collision-free
\* SHA-256); NoneHash is Python's None where a hash is expected.
NoneHash == [alg |-> "none", absorbed |-> << >>]

\* hashlib.sha256()
sha256_new == << >>

\* (faulty variant: the state absorbed before the chunk is forgotten)
sha256_update_reset(h, chunk) == chunk

\* sha256.update(chunk): absorb the bytes of one chunk, in order
sha256_update(h, chunk) == h \o chunk

\* sha256.hexdigest()
hexdigest(h) == [alg |-> "sha256", absorbed |-> h]

\* while True: chunk = f.read(8192); if not chunk: break; sha256.update(chunk)
RECURSIVE hash_loop(_, _)
hash_loop(h, rest) ==
    IF rest = << >> THEN h
    ELSE LET n == Min(ChunkSize, Len(rest))
         IN  hash_loop(sha256_update(h, SubSeq(rest, 1, n)),
                       SubSeq(rest, n + 1, Len(rest)))

\* the hash of a file as push and pull compute it
content_hash_of(bytes) == hexdigest(hash_loop(sha256_new, bytes))

\* the empty string where a hash is expected: the content of an empty file
EmptyHash == [alg |-> "empty", absorbed |-> << >>]

\* Python truthiness of a hash value: None and the empty string are falsy
Truthy(h) == h.alg = "sha256"

(* ------------------------------ gzip ---------------------------------- *)
\* gzip.open(path, "wb"): the header carries the time of the call (mtime is
\* not passed), the payload follows
gzip_write(payload, mtime) == <<mtime>> \o payload

\* gzip.open(path, "rb").read(): the payload without the header
gzip_read(gz) == Tail(gz)

(* --------------------------- ArchiveBuilder --------------------------- *)
\* A file or directory name is its text split at the last dot:
\* "foo.pyc" is N("foo", ".pyc"), "build" is N("build", ""), ".git" is N("", ".git").
N(b, s) == [base |-> b, suf |-> s]

\* every name of the model; a name's position is its byte code in an archive
\* entry and its rank in a directory listing
NameTable ==
    << N("", ".pyc"), N("", ".git"), N("LICENSE", ""), N("README", ".md"),
       N("build", ""), N("foo", ".pyc"), N("lean", ""), N("main", ".py"),
       N("pkg", ".egg-info"), N("setup", ".py"), N("util", ".py") >>

Names == {NameTable[i] : i \in 1..Len(NameTable)}

NameCode(n) == CHOOSE i \in 1..Len(NameTable) : NameTable[i] = n

\* include_patterns of _create_cli_tarball, in list order
include_patterns ==
    << N("lean", ""), N("pyproject", ".toml"), N("setup", ".py"),
       N("setup", ".cfg"), N("README", ".md"), N("LICENSE", ""),
       N("MANIFEST", ".in") >>

\* exclude_patterns of _create_cli_tarball; star is pattern.startswith("*")
\* and text is the pattern without the star
Pat(st, b, s) == [star |-> st, text |-> N(b, s)]

exclude_patterns ==
    { Pat(FALSE, "__pycache__", ""), Pat(FALSE, "", ".pyc"),
      Pat(FALSE, "", ".pyo"), Pat(FALSE, "", ".git"),
      Pat(FALSE, "", ".pytest_cache"), Pat(FALSE, "", ".mypy_cache"),
      Pat(FALSE, "", ".tox"), Pat(FALSE, "", ".eggs"),
      Pat(TRUE, "", ".egg-info"), Pat(FALSE, "", ".venv"),
      Pat(FALSE, "venv", ""), Pat(FALSE, "dist", ""),
      Pat(FALSE, "build", "") }

\* name.endswith(text) for a text of the form ".ext"
endswith(name, text) == text.base = "" /\ name.suf = text.suf

\* (faulty variant: only exact names are compared, "*suffix" rules never match)
should_exclude_exact(name) ==
    \E pattern \in exclude_patterns : ~pattern.star /\ name = pattern.text

\* should_exclude(path): path.name against every pattern
should_exclude(name) ==
    \E pattern \in exclude_patterns :
        IF pattern.star THEN endswith(name, pattern.text)
        ELSE name = pattern.text

\* A source tree is a set of regular files [path, data]; path is the
\* sequence of names from the root, data the file's content.
IsPrefix(d, p) == Len(d) <= Len(p) /\ SubSeq(p, 1, Len(d)) = d

\* names of the entries of directory d
ChildNames(tree, d) ==
    {f.path[Len(d) + 1] : f \in {g \in tree : IsPrefix(d, g.path) /\ Len(g.path) > Len(d)}}

\* the entries of one directory in the order the file system lists them:
\* ascending or descending by name (order is not fixed by the code)
RECURSIVE scandir_seq(_, _)
scandir_seq(names, fsorder) ==
    IF names = {} THEN << >>
    ELSE LET n == CHOOSE x \in names : \A y \in names :
                      IF fsorder = "asc" THEN NameCode(x) <= NameCode(y)
                      ELSE NameCode(x) >= NameCode(y)
         IN  <<n>> \o scandir_seq(names \ {n}, fsorder)

\* path.rglob("*") restricted to regular files: the entries of d as listed,
\* then the same for every sub-directory of d in listing order
RECURSIVE rglob(_, _, _)
RECURSIVE rglob_subdirs(_, _, _, _)
rglob(tree, d, fsorder) ==
    LET listing == scandir_seq(ChildNames(tree, d), fsorder)
        here    == SelectSeq(listing, LAMBDA n : \E f \in tree : f.path = d \o <<n>>)
        subdirs == SelectSeq(listing, LAMBDA n :
                       \E f \in tree : IsPrefix(d \o <<n>>, f.path) /\ Len(f.path) > Len(d) + 1)
    IN  [i \in 1..Len(here) |-> d \o <<here[i]>>] \o rglob_subdirs(tree, d, subdirs, fsorder)
rglob_subdirs(tree, d, subdirs, fsorder) ==
    IF subdirs = << >> THEN << >>
    ELSE rglob(tree, d \o <<Head(subdirs)>>, fsorder)
         \o rglob_subdirs(tree, d, Tail(subdirs), fsorder)

\* (faulty variant: every file below an included directory is skipped)
parent_excluded_always(path) == TRUE

\* for parent in file_path.relative_to(source_dir).parents:
\*     if should_exclude(Path(parent.name)): skip
parent_excluded(path) == \E i \in 1..(Len(path) - 1) : should_exclude(path[i])

DataOf(tree, path) == (CHOOSE f \in tree : f.path = path).data

\* tar.add(file, arcname): the entry's header (its name) and its content
RECURSIVE name_bytes(_)
name_bytes(path) ==
    IF path = << >> THEN << >> ELSE <<NameCode(Head(path))>> \o name_bytes(Tail(path))
tar_add(tree, path) == <<Len(path)>> \o name_bytes(path) \o <<DataOf(tree, path)>>

\* the arcnames of the entries of an archive, in archive order
RECURSIVE tar_getnames(_)
tar_getnames(tar) ==
    IF tar = << >> THEN << >>
    ELSE LET n == tar[1]
         IN  << [i \in 1..n |-> NameTable[tar[1 + i]]] >>
             \o tar_getnames(SubSeq(tar, n + 3, Len(tar)))

RECURSIVE tar_add_all(_, _)
tar_add_all(tree, paths) ==
    IF paths = << >> THEN << >>
    ELSE tar_add(tree, Head(paths)) \o tar_add_all(tree, Tail(paths))

\* the paths _create_cli_tarball adds for one include pattern
included_paths(tree, pattern, fsorder) ==
    IF \E f \in tree : f.path = <<pattern>> THEN << <<pattern>> >>
    ELSE SelectSeq(rglob(tree, <<pattern>>, fsorder),
                   LAMBDA p : ~should_exclude(p[Len(p)]) /\ ~parent_excluded(p))

RECURSIVE archive_paths(_, _, _)
archive_paths(tree, patterns, fsorder) ==
    IF patterns = << >> THEN << >>
    ELSE included_paths(tree, Head(patterns), fsorder)
         \o archive_paths(tree, Tail(patterns), fsorder)

\* _create_cli_tarball(source_dir, output_path): the bytes of the .tar.gz
\* written when the tree is enumerated in fsorder and the clock reads mtime
create_cli_tarball(tree, fsorder, mtime) ==
    gzip_write(tar_add_all(tree, archive_paths(tree, include_patterns, fsorder)), mtime)

(* --------------------------- external processes ----------------------- *)
\* `<runtime> save image -o tar`: the tarball of the local image
docker_save(img) == <<img>>

\* `<runtime> load -i tar`: the image a tarball holds
docker_load(tar) == tar[1]

(* --------------------------- object-store headers --------------------- *)
\* A response header name is its first 11 characters and the rest.
\* The client sends x-amz-meta-content-hash; a store echoes the name in lower
\* case or in canonical MIME case.
Header(pre, rest) == [pre |-> pre, rest |-> rest]

echoed_header(style) ==
    IF style = "lower" THEN Header("x-amz-meta-", "content-hash")
    ELSE Header("X-Amz-Meta-", "Content-Hash")

\* str.lower() on the first 11 characters of a header name
lower(pre) == IF pre = "X-Amz-Meta-" THEN "x-amz-meta-" ELSE pre

\* get_cli_metadata / get_cli_hash on a 2xx answer to HEAD:
\*   if header.lower().startswith("x-amz-meta-"): metadata[header[11:]] = value
\*   return metadata.get("content-hash")
get_cli_hash_from(header, value) ==
    IF lower(header.pre) = "x-amz-meta-" /\ header.rest = "content-hash"
    THEN value ELSE NoneHash

(* ------------------------------ state --------------------------------- *)
VARIABLES
    s3_body,      \* kind -> bytes of the object stored under the kind's key
    advertised,   \* kind -> hash the remote reports (server record; object metadata for the CLI)
    cache,        \* container kind -> content of ~/.lean/container-cache/<kind>.hash
    image,        \* container kind -> content of the image in the local runtime
    cli_src,      \* the lean-cli source tree
    now,          \* wall clock, seconds
    inv,          \* process -> its current (or last finished) invocation
    prev,         \* process -> summary of the invocation before that
    ops,          \* invocations started so far
    settled,      \* history: kind -> the last write to the remote completed a push
    disturbed,    \* history: process -> another process wrote the remote since p's command began
    builds,       \* the archives built so far (archive-builder specification)
    transfer,     \* the transfer whose progress is reported (progress specification)
    hashing,      \* the file being hashed (hasher specification)
    credentials,  \* the CLI credentials storage: option -> stored value or None
    conf,         \* lean.json, the server's config and the running config command
    logins        \* history: the logins run so far, with their inputs and results

vars == <<s3_body, advertised, cache, image, cli_src, now, inv, prev, ops, settled, disturbed, builds,
          transfer, hashing, credentials, conf, logins>>

remote   == <<s3_body, advertised>>
local    == <<cache, image, cli_src>>
hist     == <<settled, disturbed>>

\* An invocation record holds the command's locals (remote_hash, local_hash,
\* content_hash, gz), its position pc, and history fields: counters of the
\* calls it made, the state it started from (pre_*), what the remote really
\* did on its hash query (answer, served_hash), the remote call that failed
\* with a transport error (failed_call) and whether the cache file was read
\* while another command was writing it (concurrent_write).
NoInvocation ==
    [op |-> "none", kind |-> "engine", force |-> FALSE, check_only |-> FALSE,
     pc |-> "idle", outcome |-> "none", err |-> "none",
     remote_hash |-> NoneHash, local_hash |-> NoneHash, content_hash |-> NoneHash,
     gz |-> NoBytes, src |-> 0,
     hash_queries |-> 0, uploads |-> 0, confirms |-> 0, downloads |-> 0,
     loads |-> 0, cache_writes |-> 0,
     pre_body |-> NoBytes, pre_adv |-> NoneHash, pre_cache |-> NoneHash, pre_image |-> 0,
     quiet_start |-> FALSE,
     answer |-> "none", served_hash |-> NoneHash, failed_call |-> "none",
     cache_reads |-> 0, installed |-> FALSE, concurrent_write |-> FALSE,
     sent_hash |-> NoneHash, sent_size |-> 0, expected_size |-> 0, truncated |-> FALSE]

Summary(i) ==
    [op |-> i.op, kind |-> i.kind, force |-> i.force, outcome |-> i.outcome,
     src |-> i.src, content_hash |-> i.content_hash, uploads |-> i.uploads,
     downloads |-> i.downloads]

\* the one-file source tree whose file has content c
SourceTree(c) == {[path |-> <<N("lean", ""), N("main", ".py")>>, data |-> c]}

\* the engine archive an earlier push of image content 1 at time 0 stored
FirstArchive == gzip_write(docker_save(1), 0)

\* A run starts on a workstation and a remote that are fresh, or that earlier
\* commands left in service: the engine container pushed and then pulled, so
\* that the cache file holds its hash.
(* ------------------------- Python values ------------------------------ *)
\* A string is the sequence of its characters; None is Python's None (JSON
\* null in a config file).
None == [t |-> "none", v |-> << >>]
Str(s) == [t |-> "str", v |-> s]

\* `if value:` for a string or None
is_truthy(x) == x.t = "str" /\ x.v # << >>

\* a dict with no keys
EmptyDict == [k \in {} |-> None]

\* dict.get(key, default)
dict_get(d, key, default) == IF key \in DOMAIN d THEN d[key] ELSE default

\* (faulty variant: keys already present keep their value)
dict_update_keeps(d, other) ==
    [k \in DOMAIN d \cup DOMAIN other |-> IF k \in DOMAIN d THEN d[k] ELSE other[k]]

\* d.update(other) on a copy of d
dict_update(d, other) ==
    [k \in DOMAIN d \cup DOMAIN other |-> IF k \in DOMAIN other THEN other[k] ELSE d[k]]

\* the options of the CLI credentials storage that login and config push use
Options == {"user_id", "api_token", "data_server_url", "data_server_api_key"}

\* a credentials storage in which nothing was ever set
NoCredentials == [o \in Options |-> None]

\* the keys and values of the config files of the model
ConfigKeys == {"job-user-id", "data-folder"}
ConfigValues == {Str(<< >>), Str(<<"7">>), Str(<<"a">>), None}
Configs == UNION {[K -> ConfigValues] : K \in SUBSET ConfigKeys}

\* no config command has run; lean.json is empty, the server has no config
NoConf ==
    [lean_json |-> EmptyDict, server |-> [exists |-> FALSE, config |-> EmptyDict],
     op |-> "none", pc |-> "idle", overwrite |-> FALSE, merge |-> FALSE, dry_run |-> FALSE,
     outcome |-> "none", err |-> "none", answer |-> "none", requests |-> 0,
     local_config |-> EmptyDict, server_config |-> EmptyDict, new_config |-> EmptyDict,
     config_data |-> EmptyDict, pre_json |-> EmptyDict, pre_credentials |-> NoCredentials,
     diffed |-> FALSE, writes |-> 0]

NoTransfer ==
    [site |-> "none", size |-> 0, expected |-> 0, chunk_size |-> 1, bytes |-> 0,
     last_percent |-> 0, percents |-> << >>, reports |-> << >>, done |-> FALSE]

NoHashing == [site |-> "none", data |-> << >>, pos |-> 0, h |-> << >>, done |-> FALSE]

Init ==
    /\ s3_body \in { [k \in AllKinds |-> NoBytes],
                     [k \in AllKinds |-> IF k = "engine" THEN FirstArchive ELSE NoBytes] }
    /\ advertised = [k \in AllKinds |-> IF s3_body[k] = NoBytes THEN NoneHash
                                         ELSE content_hash_of(s3_body[k])]
    /\ cache = [k \in Kinds |-> advertised[k]]
    /\ image = [k \in Kinds |-> 1]
    /\ cli_src = SourceTree(1)
    /\ now = 0
    /\ inv = [p \in Procs |-> NoInvocation]
    /\ prev = [p \in Procs |-> Summary(NoInvocation)]
    /\ ops = 0
    /\ settled = [k \in AllKinds |-> TRUE]
    /\ disturbed = [p \in Procs |-> FALSE]
    /\ builds = << >>
    /\ transfer = NoTransfer
    /\ hashing = NoHashing
    /\ credentials = NoCredentials
    /\ conf = NoConf
    /\ logins = << >>

(* ------------------------------ helpers ------------------------------- *)
\* a push of kind k is running on some process
PushInFlight(k) ==
    \E q \in Procs : inv[q].kind = k /\ inv[q].pc # "idle"
                      /\ inv[q].op \in {"container_push", "cli_push"}

\* process p wrote the remote
Disturb(p) == disturbed' = [q \in Procs |-> IF q = p THEN disturbed[q] ELSE TRUE]

\* a fresh invocation record, with the remote and local state it starts from
Begin(p, o, k, f, c, next) ==
    /\ inv[p].pc = "idle"
    /\ ops < MaxOps
    /\ ops' = ops + 1
    /\ disturbed' = [disturbed EXCEPT ![p] = FALSE]
    /\ UNCHANGED <<settled, builds, transfer, hashing, credentials, conf, logins>>
    /\ prev' = [prev EXCEPT ![p] = Summary(inv[p])]
    /\ inv' = [inv EXCEPT ![p] =
           [NoInvocation EXCEPT !.op = o, !.kind = k, !.force = f, !.check_only = c,
                                !.pc = next,
                                !.outcome = IF next = "idle" THEN "failed" ELSE "none",
                                !.err = IF next = "idle" THEN "local" ELSE "none",
                                !.pre_body = s3_body[k], !.pre_adv = advertised[k],
                                !.pre_cache = IF k \in Kinds THEN cache[k] ELSE NoneHash,
                                !.pre_image = IF k \in Kinds THEN image[k] ELSE 0,
                                !.quiet_start = settled[k] /\ ~PushInFlight(k)
                                                /\ advertised[k] # NoneHash]]

\* (faulty variant: the failed call is made again instead of ending the command)
Raise_retry(i, e) == [i EXCEPT !.err = e]

\* the invocation ends with an exception
Raise(i, e) == [i EXCEPT !.pc = "idle", !.outcome = "failed", !.err = e]

\* (faulty variant: the call never returns, the command stays in it)
Return_never(i, o) == [i EXCEPT !.pc = "blocked"]

\* the invocation returns
Return(i, o) == [i EXCEPT !.pc = "idle", !.outcome = o]

At(p, o, l) == inv[p].op = o /\ inv[p].pc = l

(* ------------------- lean cloud container push ------------------------ *)
\* (faulty variant: the remote hash is queried also with --force)
queries_remote_hash_always(force) == TRUE

\* if not force: query the remote hash; else: remote_hash = None
queries_remote_hash(force) == ~force

\* push(): find the runtime, default the image name, `inspect` the image;
\* local_ok is FALSE when no runtime is installed or the image is missing
PushStart(p, k, f, local_ok) ==
    /\ Begin(p, "container_push", k, f, FALSE,
             IF ~local_ok THEN "idle" ELSE IF queries_remote_hash(f) THEN "hash" ELSE "build")
    /\ UNCHANGED <<remote, local, now>>

\* the status of the data server's answer to GET /<type>/hash: 404 when no
\* container of the type is registered, 500 for a request that fails
container_status(resp, registered) ==
    IF resp = "error" THEN 500 ELSE IF registered THEN 200 ELSE 404

\* _container_request: if status_code < 200 or status_code >= 300: raise
request_failed(status_code) == status_code < 200 \/ status_code >= 300

\* what the remote did on a hash query, whatever the client makes of it
AnswerOf(status_code) ==
    IF ~request_failed(status_code) THEN "found"
    ELSE IF status_code = 404 THEN "not_found" ELSE "failure"

\* (faulty variant: 404 is not told apart from the other failures)
is_404_never(status_code) == FALSE

\* except RequestFailedError as e: if e.response.status_code == 404
is_404(status_code) == status_code = 404

\* if not force: data_server_client.get_container_hash(container_type);
\* 404 is "no existing container", every other failure is re-raised
PushHashQuery(p, resp) ==
    /\ At(p, "container_push", "hash")
    /\ LET status_code == container_status(resp, advertised[inv[p].kind] # NoneHash)
           i == [inv[p] EXCEPT !.hash_queries = @ + 1, !.answer = AnswerOf(status_code),
                               !.failed_call = IF AnswerOf(status_code) = "failure"
                                               THEN "hash" ELSE @]
       IN  inv' = [inv EXCEPT ![p] =
               IF ~request_failed(status_code)
               THEN [i EXCEPT !.pc = "build", !.remote_hash = advertised[i.kind],
                              !.served_hash = advertised[i.kind]]
               ELSE IF is_404(status_code) THEN [i EXCEPT !.pc = "build", !.remote_hash = NoneHash]
               ELSE Raise(i, "transport")]
    /\ UNCHANGED <<remote, local, now, prev, ops, hist, builds, transfer, hashing, credentials, conf, logins>>

\* (faulty variant: the comparison inverted)
already_up_to_date_inverted(remote_hash, content_hash) ==
    Truthy(remote_hash) /\ remote_hash # content_hash

\* the comparison that decides whether push uploads:
\*   if remote_hash and remote_hash == content_hash: return
already_up_to_date(remote_hash, content_hash) ==
    Truthy(remote_hash) /\ remote_hash = content_hash

\* export the image, gzip it, hash the .gz, skip when the remote hash matches
PushBuild(p, save_ok) ==
    /\ At(p, "container_push", "build")
    /\ LET i  == inv[p]
           gz == gzip_write(docker_save(image[i.kind]), now)
           h  == content_hash_of(gz)
           j  == [i EXCEPT !.gz = gz, !.content_hash = h, !.src = image[i.kind]]
       IN  inv' = [inv EXCEPT ![p] =
               IF ~save_ok THEN Raise(i, "local")
               ELSE IF already_up_to_date(i.remote_hash, h) THEN Return(j, "skip")
               ELSE [j EXCEPT !.pc = "url"]]
    /\ UNCHANGED <<remote, local, now, prev, ops, hist, builds, transfer, hashing, credentials, conf, logins>>

\* push_container_file step 1: get_container_upload_url
PushGetUploadUrl(p, ok) ==
    /\ At(p, "container_push", "url")
    /\ inv' = [inv EXCEPT ![p] =
           IF ok THEN [@ EXCEPT !.pc = "put"]
           ELSE Raise([@ EXCEPT !.failed_call = "url"], "transport")]
    /\ UNCHANGED <<remote, local, now, prev, ops, hist, builds, transfer, hashing, credentials, conf, logins>>

\* (faulty variant: the status of the PUT is not looked at)
put_failed_never(status_code) == FALSE

\* if response.status_code < 200 or response.status_code >= 300:
\*     raise RuntimeError("S3 upload failed: ...")
put_failed(status_code) == status_code < 200 \/ status_code >= 300

\* push_container_file step 2: requests.put(upload_url, data=file_wrapper);
\* a 2xx answer means the object under the kind's key now holds the file
PushUpload(p, ok) ==
    /\ At(p, "container_push", "put")
    /\ LET status_code == IF ok THEN 200 ELSE 500
           i == [inv[p] EXCEPT !.uploads = @ + 1,
                               !.failed_call = IF ok THEN @ ELSE "put"]
       IN  inv' = [inv EXCEPT ![p] =
               IF put_failed(status_code) THEN Raise(i, "transport")
               ELSE [i EXCEPT !.pc = "confirm"]]
    /\ s3_body' = IF ok THEN [s3_body EXCEPT ![inv[p].kind] = inv[p].gz] ELSE s3_body
    /\ settled' = IF ok THEN [settled EXCEPT ![inv[p].kind] = FALSE] ELSE settled
    /\ IF ok THEN Disturb(p) ELSE UNCHANGED disturbed
    /\ UNCHANGED <<advertised, local, now, prev, ops, builds, transfer, hashing, credentials, conf, logins>>

\* push_container_file step 3: confirm_container_upload(content_hash, size);
\* a 2xx answer means the server registered the hash it was sent
PushConfirm(p, ok) ==
    /\ At(p, "container_push", "confirm")
    /\ LET file_size == Len(inv[p].gz)
           data == [content_hash |-> inv[p].content_hash, compressed_size_bytes |-> file_size]
           i == [inv[p] EXCEPT !.confirms = @ + 1, !.sent_hash = data.content_hash,
                               !.sent_size = data.compressed_size_bytes]
       IN  /\ inv' = [inv EXCEPT ![p] =
                  IF ok THEN Return(i, "done")
                  ELSE Raise([i EXCEPT !.failed_call = "confirm"], "transport")]
           /\ advertised' = IF ok THEN [advertised EXCEPT ![inv[p].kind] = data.content_hash]
                            ELSE advertised
    /\ settled' = IF ok THEN [settled EXCEPT ![inv[p].kind] = TRUE] ELSE settled
    /\ IF ok THEN Disturb(p) ELSE UNCHANGED disturbed
    /\ UNCHANGED <<s3_body, local, now, prev, ops, builds, transfer, hashing, credentials, conf, logins>>

(* ------------------- lean cloud container pull ------------------------ *)
\* _get_cached_hash(container_type): None when the file does not exist, else
\* its text, the empty string for an empty file
get_cached_hash(k) == cache[k]

\* another command has opened the cache file of kind k for writing and has
\* not written it yet
WriterAtWork(p, k) ==
    \E q \in Procs \ {p} : inv[q].op = "container_pull" /\ inv[q].kind = k
                             /\ inv[q].pc = "cache_write"

\* (faulty variant: --force does not override an equal cache entry)
update_needed_ignores_force(force, local_hash, remote_hash) == local_hash # remote_hash

\* (faulty variant: the cache is never consulted)
update_needed_always(force, local_hash, remote_hash) == TRUE

\* update_needed = force or local_hash != remote_hash
update_needed(force, local_hash, remote_hash) == force \/ local_hash # remote_hash

\* pull() up to the remote hash query
PullStart(p, k, f, c) ==
    /\ Begin(p, "container_pull", k, f, c, "hash")
    /\ UNCHANGED <<remote, local, now>>

\* data_server_client.get_container_hash(container_type): the answer of
\* GET /<type>/hash
get_container_hash(resp, k) ==
    [status_code |-> container_status(resp, advertised[k] # NoneHash),
     content_hash |-> advertised[k], container_type |-> k]

\* (faulty variant: the hash to compare with is taken from the cache file)
get_content_hash_cached(response) == cache[response.container_type]

\* remote_hash = remote_hash_response.get("content_hash")
get_content_hash(response) == response.content_hash

\* (faulty variant: --check-only does not stop the pull)
stops_after_check_never(check_only) == FALSE

\* if check_only: log "Update available!" and return
stops_after_check(check_only) == check_only

\* get_container_hash; 404 returns; then the cache is read and update_needed
\* decides between up to date, the check-only report and the download;
\* runtime_ok is FALSE when neither docker nor podman is installed
PullHashQuery(p, resp, runtime_ok) ==
    /\ At(p, "container_pull", "hash")
    /\ LET response == get_container_hash(resp, inv[p].kind)
           i == [inv[p] EXCEPT !.hash_queries = @ + 1,
                               !.answer = AnswerOf(response.status_code),
                               !.failed_call = IF AnswerOf(response.status_code) = "failure"
                                               THEN "hash" ELSE @]
           remote_hash == get_content_hash(response)
           local_hash  == get_cached_hash(i.kind)
           j == [i EXCEPT !.remote_hash = remote_hash, !.local_hash = local_hash,
                          !.served_hash = response.content_hash,
                          !.cache_reads = @ + 1,
                          !.concurrent_write = WriterAtWork(p, i.kind)]
       IN  inv' = [inv EXCEPT ![p] =
               IF request_failed(response.status_code)
               THEN IF is_404(response.status_code) THEN Return(i, "nothing")
                    ELSE Raise(i, "transport")
               ELSE IF ~update_needed(i.force, local_hash, remote_hash) THEN Return(j, "uptodate")
               ELSE IF stops_after_check(i.check_only) THEN Return(j, "update_available")
               ELSE IF ~runtime_ok THEN Raise(j, "local")
               ELSE [j EXCEPT !.pc = "dlurl"]]
    /\ UNCHANGED <<remote, local, now, prev, ops, hist, builds, transfer, hashing, credentials, conf, logins>>

\* download_container_to_file: get_container_download_url; the server
\* answers 404 when no container of the kind is registered
\* url_response.get("compressed_size_bytes"): the size the server recorded
\* for the kind; it was sent by the confirm call together with the hash, as
\* the size of the file the hash was computed over
compressed_size_bytes(k) == Len(advertised[k].absorbed)

PullGetDownloadUrl(p, ok) ==
    /\ At(p, "container_pull", "dlurl")
    /\ inv' = [inv EXCEPT ![p] =
           IF ok /\ advertised[@.kind] # NoneHash
           THEN [@ EXCEPT !.pc = "get", !.expected_size = compressed_size_bytes(inv[p].kind)]
           ELSE Raise([@ EXCEPT !.failed_call = IF ok THEN @ ELSE "dlurl"], "transport")]
    /\ UNCHANGED <<remote, local, now, prev, ops, hist, builds, transfer, hashing, credentials, conf, logins>>

\* the bytes response.iter_content delivers: the whole object, or, when the
\* connection ends early and the HTTP library does not enforce
\* Content-Length, a proper prefix of it without any exception
iter_content(body, resp) ==
    IF resp = "short" THEN SubSeq(body, 1, Len(body) - 1) ELSE body

\* download_container_to_file: requests.get(download_url, stream=True)
\* written to gz_path chunk by chunk; resp is what the transport does.
\* bytes_written is logged and returned, it is not compared with expected_size
PullDownload(p, resp) ==
    /\ At(p, "container_pull", "get")
    /\ LET ok == resp # "error" /\ s3_body[inv[p].kind] # NoBytes
           f == iter_content(s3_body[inv[p].kind], resp)
           i == [inv[p] EXCEPT !.downloads = @ + 1]
       IN  inv' = [inv EXCEPT ![p] =
               IF ~ok
               THEN Raise([i EXCEPT !.failed_call = IF resp = "error" THEN "get" ELSE @],
                          "transport")
               ELSE [i EXCEPT !.pc = "verify", !.gz = f, !.truncated = resp = "short"]]
    /\ UNCHANGED <<remote, local, now, prev, ops, hist, builds, transfer, hashing, credentials, conf, logins>>

\* (faulty variant: the comparison is skipped)
hash_mismatch_never(computed_hash, remote_hash) == FALSE

\* if computed_hash != remote_hash: raise RuntimeError("Hash mismatch! ...")
hash_mismatch(computed_hash, remote_hash) == computed_hash # remote_hash

\* (faulty variant: the exit status of the load is ignored)
load_failed_never(returncode) == FALSE

\* if result.returncode != 0: raise RuntimeError("Failed to load image: ...")
load_failed(returncode) == returncode # 0

\* verify the hash of the downloaded file, decompress it, load it into the
\* runtime; load_ok is FALSE when `<runtime> load` returns non-zero
PullVerifyLoad(p, load_ok) ==
    /\ At(p, "container_pull", "verify")
    /\ LET i == inv[p]
           computed_hash == content_hash_of(i.gz)
           j == [i EXCEPT !.content_hash = computed_hash]
           bad == hash_mismatch(computed_hash, i.remote_hash)
           returncode == IF load_ok THEN 0 ELSE 1
       IN  /\ inv' = [inv EXCEPT ![p] =
                  IF bad THEN Raise(j, "integrity")
                  ELSE IF load_failed(returncode) THEN Raise([j EXCEPT !.loads = @ + 1], "local")
                  ELSE [j EXCEPT !.pc = "cache", !.loads = @ + 1, !.installed = load_ok]]
           /\ image' = IF ~bad /\ load_ok
                       THEN [image EXCEPT ![i.kind] = docker_load(gzip_read(i.gz))]
                       ELSE image
    /\ UNCHANGED <<remote, cache, cli_src, now, prev, ops, hist, builds, transfer, hashing, credentials, conf, logins>>

\* (faulty variant: the cache file is left as it was)
set_cached_hash_noop(files, container_type, content_hash) == files

\* _set_cached_hash: (CONTAINER_CACHE_DIR / f"{container_type}.hash").write_text(content_hash)
set_cached_hash(files, container_type, content_hash) ==
    [files EXCEPT ![container_type] = content_hash]

\* _set_cached_hash(container_type, remote_hash), first half: mkdir, then
\* write_text opens the file with mode "w", which empties it; open_ok is FALSE
\* when the directory or the file cannot be created or opened
PullSetCachedHash(p, open_ok) ==
    /\ At(p, "container_pull", "cache")
    /\ inv' = [inv EXCEPT ![p] =
           IF open_ok THEN [@ EXCEPT !.pc = "cache_write", !.cache_writes = @ + 1]
           ELSE Raise(@, "local")]
    /\ cache' = IF open_ok THEN set_cached_hash(cache, inv[p].kind, EmptyHash)
                ELSE cache
    /\ UNCHANGED <<remote, image, cli_src, now, prev, ops, hist, builds, transfer, hashing, credentials, conf, logins>>

\* _set_cached_hash, second half: write_text writes the hash and closes the
\* file; write_ok is FALSE when the write fails (disk full, I/O error,
\* interrupt), which leaves the emptied file behind
PullCacheWrite(p, write_ok) ==
    /\ At(p, "container_pull", "cache_write")
    /\ inv' = [inv EXCEPT ![p] =
           IF write_ok THEN Return(@, "done") ELSE Raise(@, "local")]
    /\ cache' = IF write_ok THEN set_cached_hash(cache, inv[p].kind, inv[p].remote_hash)
                ELSE cache
    /\ UNCHANGED <<remote, image, cli_src, now, prev, ops, hist, builds, transfer, hashing, credentials, conf, logins>>

(* ------------------------ lean cloud cli push ------------------------- *)
\* push(): the S3 client must be configured and the source directory exist
CliStart(p, f, local_ok) ==
    /\ Begin(p, "cli_push", CliKind, f, FALSE,
             IF ~local_ok THEN "idle" ELSE IF queries_remote_hash(f) THEN "hash" ELSE "build")
    /\ UNCHANGED <<remote, local, now>>

\* what requests.head(url) does: it returns a response with the store's
\* status (200 when the object exists, 404 when it does not, 500 for a request
\* the store refuses), or it raises a RequestException (connection error,
\* timeout) whose text may contain the characters "404"
requests_head(resp, found) ==
    [raised |-> resp \in {"exception", "exception_404"},
     text_has_404 |-> resp = "exception_404",
     status_code |-> IF resp = "error" THEN 500 ELSE IF found THEN 200 ELSE 404]

\* get_cli_metadata(): None for status 404 and for an exception with "404" in
\* str(e), RuntimeError for a status >= 300, the exception itself otherwise;
\* on success the dict built from the x-amz-meta- headers
get_cli_metadata(head, header, value) ==
    IF head.raised
    THEN [raises |-> ~head.text_has_404, is_none |-> head.text_has_404, content_hash |-> NoneHash]
    ELSE IF head.status_code = 404
    THEN [raises |-> FALSE, is_none |-> TRUE, content_hash |-> NoneHash]
    ELSE IF head.status_code >= 300
    THEN [raises |-> TRUE, is_none |-> FALSE, content_hash |-> NoneHash]
    ELSE [raises |-> FALSE, is_none |-> FALSE, content_hash |-> get_cli_hash_from(header, value)]

\* s3_client.get_cli_hash(): metadata.get("content_hash") if metadata else None;
\* style is the spelling of the metadata header names in the store's answer
CliHashQuery(p, resp, style) ==
    /\ At(p, "cli_push", "hash")
    /\ LET found == s3_body[CliKind] # NoBytes
           head == requests_head(resp, found)
           metadata == get_cli_metadata(head, echoed_header(style), advertised[CliKind])
           i == [inv[p] EXCEPT !.hash_queries = @ + 1,
                               !.answer = IF head.raised THEN "failure"
                                          ELSE AnswerOf(head.status_code),
                               !.failed_call = IF head.raised
                                                  \/ AnswerOf(head.status_code) = "failure"
                                               THEN "hash" ELSE @]
       IN  inv' = [inv EXCEPT ![p] =
               IF metadata.raises THEN Raise(i, "transport")
               ELSE IF metadata.is_none THEN [i EXCEPT !.pc = "build", !.remote_hash = NoneHash]
               ELSE [i EXCEPT !.pc = "build",
                              !.served_hash = advertised[CliKind],
                              !.remote_hash = metadata.content_hash]]
    /\ UNCHANGED <<remote, local, now, prev, ops, hist, builds, transfer, hashing, credentials, conf, logins>>

\* _create_cli_tarball, hash the tarball, skip when the remote hash matches
CliBuild(p, fsorder) ==
    /\ At(p, "cli_push", "build")
    /\ \E gz \in {create_cli_tarball(cli_src, fsorder, now)} :
       \E h \in {content_hash_of(gz)} :
           LET i == inv[p]
               j == [i EXCEPT !.gz = gz, !.content_hash = h,
                              !.src = (CHOOSE f \in cli_src : TRUE).data]
           IN  inv' = [inv EXCEPT ![p] =
                   IF already_up_to_date(i.remote_hash, h) THEN Return(j, "skip")
                   ELSE [j EXCEPT !.pc = "put"]]
    /\ UNCHANGED <<remote, local, now, prev, ops, hist, builds, transfer, hashing, credentials, conf, logins>>

\* s3_client.upload_cli: one PUT carrying the body and the x-amz-meta-
\* headers; a status below 300 means the object and its metadata are replaced
CliUpload(p, ok) ==
    /\ At(p, "cli_push", "put")
    /\ inv' = [inv EXCEPT ![p] =
           IF ok THEN Return([@ EXCEPT !.uploads = @ + 1], "done")
           ELSE Raise([@ EXCEPT !.uploads = @ + 1, !.failed_call = "put"], "transport")]
    /\ s3_body' = IF ok THEN [s3_body EXCEPT ![CliKind] = inv[p].gz] ELSE s3_body
    /\ advertised' = IF ok THEN [advertised EXCEPT ![CliKind] = inv[p].content_hash]
                     ELSE advertised
    /\ settled' = IF ok THEN [settled EXCEPT ![CliKind] = TRUE] ELSE settled
    /\ IF ok THEN Disturb(p) ELSE UNCHANGED disturbed
    /\ UNCHANGED <<local, now, prev, ops, builds, transfer, hashing, credentials, conf, logins>>

(* ------------------------------ environment --------------------------- *)
\* no command is running
AllIdle == \A p \in Procs : inv[p].pc = "idle"

\* a command is running or one more can be started: what the environment
\* does after the last command of a run has ended is of no consequence
CommandsToCome == ops < MaxOps \/ ~AllIdle

\* a second passes
Tick ==
    /\ now < MaxTime
    /\ CommandsToCome
    /\ now' = now + 1
    /\ UNCHANGED <<remote, local, inv, prev, ops, hist, builds, transfer, hashing, credentials, conf, logins>>

\* between two commands the developer rebuilds a local image
RebuildImage(k, c) ==
    /\ AllIdle /\ CommandsToCome
    /\ image[k] # c
    /\ image' = [image EXCEPT ![k] = c]
    /\ UNCHANGED <<remote, cache, cli_src, now, inv, prev, ops, hist, builds, transfer, hashing, credentials, conf, logins>>

\* between two commands the developer edits the lean-cli source
EditSource(c) ==
    /\ AllIdle /\ CommandsToCome
    /\ cli_src # SourceTree(c)
    /\ cli_src' = SourceTree(c)
    /\ UNCHANGED <<remote, cache, image, now, inv, prev, ops, hist, builds, transfer, hashing, credentials, conf, logins>>

(* --------------------------- archive builder runs --------------------- *)
\* the files a source tree of the archive-builder specification may hold
Lean == N("lean", "")
FileUniverse ==
    { [path |-> <<Lean, N("main", ".py")>>, data |-> 1],
      [path |-> <<Lean, N("util", ".py")>>, data |-> 1],
      [path |-> <<Lean, N("foo", ".pyc")>>, data |-> 1],
      [path |-> <<Lean, N("", ".pyc")>>, data |-> 1],
      [path |-> <<Lean, N("build", ""), Lean, N("util", ".py")>>, data |-> 1],
      [path |-> <<Lean, N("build", ""), N("main", ".py")>>, data |-> 1],
      [path |-> <<Lean, N("pkg", ".egg-info"), N("util", ".py")>>, data |-> 1],
      [path |-> <<N("setup", ".py")>>, data |-> 1],
      [path |-> <<N("build", ""), N("main", ".py")>>, data |-> 1] }

\* one call of _create_cli_tarball on the unchanged tree, followed by the
\* hashing loop of push()
CreateCliTarball(fsorder) ==
    /\ Len(builds) < MaxBuilds
    /\ LET gz == create_cli_tarball(cli_src, fsorder, now)
       IN  builds' = Append(builds, [bytes |-> gz, content_hash |-> content_hash_of(gz),
                                     fsorder |-> fsorder, mtime |-> now])
    /\ UNCHANGED <<remote, local, now, inv, prev, ops, hist, transfer, hashing, credentials, conf, logins>>

(* --------------------------- progress reporting ----------------------- *)
\* percent = int((bytes_read / total_size) * 100); for every size up to 30
\* bytes the float expression equals the floor of bytes * 100 / total
percent_of(bytes_read, total_size) == (bytes_read * 100) \div total_size

\* if percent > self._last_percent and percent % 10 == 0
reports_progress(percent, last_percent) == percent > last_percent /\ percent % 10 = 0

\* the transfers the progress specification starts from: an upload through
\* _ProgressFileWrapper (total size = size of the file) or a streamed
\* download (expected size from the remote; 0 stands for None, both falsy)
Transfers ==
    { [site |-> st, size |-> sz, expected |-> e, chunk_size |-> c, bytes |-> 0,
       last_percent |-> 0, percents |-> << >>, reports |-> << >>, done |-> FALSE] :
      st \in {"upload", "download"}, sz \in 0..MaxSize, e \in 0..MaxSize, c \in 1..MaxChunk }

\* one chunk of the transfer: __next__ / read of the upload wrappers, one
\* round of the iter_content loop of the downloads
TransferChunk ==
    /\ transfer.site # "none" /\ ~transfer.done
    /\ LET chunk      == Min(transfer.chunk_size, transfer.size - transfer.bytes)
           bytes_read == transfer.bytes + chunk
           known      == transfer.expected # 0
           percent    == percent_of(bytes_read, transfer.expected)
       IN  transfer' =
               IF chunk = 0 THEN [transfer EXCEPT !.done = TRUE]
               ELSE IF ~known THEN [transfer EXCEPT !.bytes = bytes_read]
               ELSE IF reports_progress(percent, transfer.last_percent)
                    THEN [transfer EXCEPT !.bytes = bytes_read,
                                          !.percents = Append(@, percent),
                                          !.reports = Append(@, percent),
                                          !.last_percent = percent]
                    ELSE [transfer EXCEPT !.bytes = bytes_read,
                                          !.percents = Append(@, percent)]
    /\ UNCHANGED <<remote, local, now, inv, prev, ops, hist, builds, hashing, credentials, conf, logins>>

(* ------------------------------ hashing runs -------------------------- *)
\* the files the hasher specification starts from, hashed by the loop of
\* container push, of CLI push or of pull verification
HashRuns ==
    { [site |-> st, data |-> d, pos |-> 0, h |-> sha256_new, done |-> FALSE] :
      st \in {"container_push", "cli_push", "container_pull"},
      d \in UNION {[1..n -> {0, 1}] : n \in 0..MaxLen} }

\* one round of: chunk = f.read(8192); if not chunk: break; sha256.update(chunk)
HashRead ==
    /\ hashing.site # "none" /\ ~hashing.done
    /\ LET chunk == SubSeq(hashing.data, hashing.pos + 1,
                           Min(hashing.pos + ChunkSize, Len(hashing.data)))
       IN  hashing' =
               IF chunk = << >> THEN [hashing EXCEPT !.done = TRUE]
               ELSE [hashing EXCEPT !.pos = @ + Len(chunk), !.h = sha256_update(@, chunk)]
    /\ UNCHANGED <<remote, local, now, inv, prev, ops, hist, builds, transfer, credentials, conf, logins>>

(* ------------------------------ lean login ---------------------------- *)
Digits == {"0", "1", "2", "3", "4", "5", "6", "7", "8", "9"}

\* (faulty variant: every stored user id counts as numeric)
isdigit_always(s) == TRUE

\* str.isdigit(): at least one character and all of them digits
isdigit(s) == Len(s) > 0 /\ \A i \in 1..Len(s) : s[i] \in Digits

\* option.get_value() / option.set_value(value) of the credentials storage
get_value(store, option) == store[option]
set_value(store, option, value) == [store EXCEPT ![option] = Str(value)]

\* (faulty variant: the stored URL is not offered as the default)
url_default_fixed(current_url) == <<"http://0.0.0.0:5067">>

\* current_url or "http://0.0.0.0:5067"
url_default(current_url) ==
    IF is_truthy(current_url) THEN current_url.v ELSE <<"http://0.0.0.0:5067">>

\* click.prompt(text, default=default): the line typed, the default when the
\* line is empty
click_prompt(typed, default) == IF typed = << >> THEN default ELSE typed

\* logger.prompt_password(text, default): the line typed; on an empty line
\* the stored value, and the prompt is repeated when there is none
prompt_password(typed, default) == IF typed = << >> THEN default.v ELSE typed
prompt_password_returns(typed, default) == typed # << >> \/ default # None

\* the credentials storage after login(url, api_key) with the given answers
\* to the prompts
login(store, url, api_key, url_typed, key_typed) ==
    LET current_user_id == get_value(store, "user_id")
        s1 == IF ~is_truthy(current_user_id) \/ ~isdigit(current_user_id.v)
              THEN set_value(store, "user_id", <<"0">>) ELSE store
        current_api_token == get_value(s1, "api_token")
        s2 == IF current_api_token = None THEN set_value(s1, "api_token", <<"placeholder">>)
              ELSE s1
        current_url == get_value(s2, "data_server_url")
        current_api_key == get_value(s2, "data_server_api_key")
        url2 == IF url = None THEN click_prompt(url_typed, url_default(current_url))
                ELSE url.v
        api_key2 == IF api_key = None THEN prompt_password(key_typed, current_api_key)
                    ELSE api_key.v
    IN  set_value(set_value(s2, "data_server_url", url2), "data_server_api_key", api_key2)

\* what the user may pass as an option (None: option not given) or type
UrlOptions == {None, Str(<<"u">>), Str(<<"v">>)}
KeyOptions == {None, Str(<<"k">>), Str(<<"j">>)}
TypedLines == {<< >>, <<"w">>}

\* one run of `lean login`
Login(url, api_key, url_typed, key_typed) ==
    /\ Len(logins) < MaxLogins
    /\ url # None => url_typed = << >>
    /\ api_key # None => key_typed = << >>
    /\ api_key = None
        => prompt_password_returns(key_typed, get_value(credentials, "data_server_api_key"))
    /\ credentials' = login(credentials, url, api_key, url_typed, key_typed)
    /\ logins' = Append(logins, [url |-> url, api_key |-> api_key, url_typed |-> url_typed,
                                  key_typed |-> key_typed, before |-> credentials,
                                  after |-> credentials'])
    /\ UNCHANGED <<remote, local, now, inv, prev, ops, hist, builds, transfer, hashing, conf>>

(* ----------------------- lean cloud config pull ----------------------- *)
\* a config command starts from the finished state of the one before
ConfBegin(o, ow, mg, dr) ==
    [NoConf EXCEPT !.lean_json = conf.lean_json, !.server = conf.server,
                   !.op = o, !.overwrite = ow, !.merge = mg, !.dry_run = dr,
                   !.pre_json = conf.lean_json, !.pre_credentials = credentials]

ConfRaise(c, e) == [c EXCEPT !.pc = "idle", !.outcome = "failed", !.err = e]
ConfReturn(c, o) == [c EXCEPT !.pc = "idle", !.outcome = o]

\* pull(): `if overwrite and merge: raise`, then json.load of lean.json
ConfigPullStart(ow, mg, dr) ==
    /\ conf.pc = "idle" /\ conf.op = "none"
    /\ conf' = LET c == ConfBegin("config_pull", ow, mg, dr)
               IN  IF ow /\ mg THEN ConfRaise(c, "usage")
                   ELSE [c EXCEPT !.pc = "request", !.local_config = conf.lean_json]
    /\ UNCHANGED <<remote, local, now, inv, prev, ops, hist, builds, transfer, hashing,
                   credentials, logins>>

\* the status of GET /api/v1/lean/config?name=...
config_status(resp, server) ==
    IF resp = "error" THEN 500 ELSE IF server.exists THEN 200 ELSE 404

\* _config_request: if response.status_code < 200 or response.status_code >= 300:
\*     raise RequestFailedError(response)
config_request_failed(status_code) == status_code < 200 \/ status_code >= 300

\* data_server_client.pull_config(...); server_config = result.get("config", {})
ConfigPullRequest(resp) ==
    /\ conf.op = "config_pull" /\ conf.pc = "request"
    /\ LET status_code == config_status(resp, conf.server)
           c == [conf EXCEPT !.requests = @ + 1,
                             !.answer = IF status_code = 404 THEN "not_found"
                                        ELSE IF status_code = 200 THEN "found" ELSE "failure"]
       IN  conf' = IF config_request_failed(status_code) THEN ConfRaise(c, "request_failed")
                   ELSE [c EXCEPT !.pc = "diff", !.server_config = conf.server.config]
    /\ UNCHANGED <<remote, local, now, inv, prev, ops, hist, builds, transfer, hashing,
                   credentials, logins>>

\* added_keys, removed_keys, modified_keys of pull()
added_keys(local_config, server_config) == DOMAIN server_config \ DOMAIN local_config
removed_keys(local_config, server_config) == DOMAIN local_config \ DOMAIN server_config
modified_keys(local_config, server_config) ==
    {key \in DOMAIN local_config \cap DOMAIN server_config :
        local_config[key] # server_config[key]}

\* if added_keys or removed_keys or modified_keys
has_changes(local_config, server_config) ==
    \/ added_keys(local_config, server_config) # {}
    \/ removed_keys(local_config, server_config) # {}
    \/ modified_keys(local_config, server_config) # {}

\* (faulty variant: changes are applied without a flag)
shows_only_never(overwrite, merge) == FALSE

\* if not overwrite and not merge: return
shows_only(overwrite, merge) == ~overwrite /\ ~merge

\* the diff and the decisions that follow it, up to the choice of new_config
ConfigPullDiff ==
    /\ conf.op = "config_pull" /\ conf.pc = "diff"
    /\ LET c == [conf EXCEPT !.diffed = TRUE]
       IN  conf' =
               IF ~has_changes(c.local_config, c.server_config) THEN ConfReturn(c, "no_changes")
               ELSE IF c.dry_run THEN ConfReturn(c, "dry_run")
               ELSE IF shows_only(c.overwrite, c.merge) THEN ConfReturn(c, "shown")
               ELSE [c EXCEPT !.pc = "write",
                              !.new_config = IF c.overwrite THEN c.server_config
                                             ELSE dict_update(c.local_config, c.server_config)]
    /\ UNCHANGED <<remote, local, now, inv, prev, ops, hist, builds, transfer, hashing,
                   credentials, logins>>

\* with open(lean_config_path, "w") as f: json.dump(new_config, f, indent=4);
\* open_ok is FALSE when the file cannot be opened for writing
ConfigPullWrite(open_ok) ==
    /\ conf.op = "config_pull" /\ conf.pc = "write"
    /\ conf' = IF open_ok
               THEN ConfReturn([conf EXCEPT !.lean_json = conf.new_config, !.writes = @ + 1],
                               "done")
               ELSE ConfRaise(conf, "local")
    /\ UNCHANGED <<remote, local, now, inv, prev, ops, hist, builds, transfer, hashing,
                   credentials, logins>>

(* ----------------------- lean cloud config push ----------------------- *)
\* cli_credentials of push(): config key -> value in the credentials storage
cli_credentials ==
    [key \in {"job-user-id", "api-access-token"} |->
        IF key = "job-user-id" THEN credentials["user_id"] ELSE credentials["api_token"]]

\* (faulty variant: a stored credential replaces the value of lean.json)
merges_credential_always(value, config_data, key) == is_truthy(value)

\* if value and config_data.get(key, "") == ""
merges_credential(value, config_data, key) ==
    is_truthy(value) /\ dict_get(config_data, key, Str(<< >>)) = Str(<< >>)

\* the loop over cli_credentials.items(): config_data[key] = value
merge_credentials(config_data) ==
    [key \in DOMAIN config_data \cup
             {k \in DOMAIN cli_credentials :
                 merges_credential(cli_credentials[k], config_data, k)} |->
        IF key \in DOMAIN cli_credentials
           /\ merges_credential(cli_credentials[key], config_data, key)
        THEN cli_credentials[key] ELSE config_data[key]]

\* push(): json.load of lean.json, the credentials merge, the dry-run report
ConfigPushStart(dr) ==
    /\ conf.pc = "idle" /\ conf.op = "none"
    /\ conf' = LET c == [ConfBegin("config_push", FALSE, FALSE, dr) EXCEPT
                            !.config_data = merge_credentials(conf.lean_json)]
               IN  IF dr THEN ConfReturn(c, "dry_run") ELSE [c EXCEPT !.pc = "post"]
    /\ UNCHANGED <<remote, local, now, inv, prev, ops, hist, builds, transfer, hashing,
                   credentials, logins>>

\* data_server_client.push_config(config=config_data, ...): POST, upsert
ConfigPushPost(resp) ==
    /\ conf.op = "config_push" /\ conf.pc = "post"
    /\ LET status_code == IF resp = "error" THEN 500 ELSE 200
           c == [conf EXCEPT !.requests = @ + 1]
       IN  conf' = IF config_request_failed(status_code) THEN ConfRaise(c, "request_failed")
                   ELSE ConfReturn([c EXCEPT !.server = [exists |-> TRUE,
                                                         config |-> conf.config_data]], "done")
    /\ UNCHANGED <<remote, local, now, inv, prev, ops, hist, builds, transfer, hashing,
                   credentials, logins>>

(* ------------------------------ specifications ------------------------ *)
Responses == {"ok", "error"}
DownloadResponses == {"ok", "error", "short"}
HeadResponses == {"ok", "error", "exception", "exception_404"}
HeaderStyles == {"lower", "canonical"}
FsOrders == {"asc", "desc"}

\* the steps of `lean cloud container push` on a kind in K
PushStep(p, K) ==
    \/ \E k \in K, f \in BOOLEAN, ok \in BOOLEAN : PushStart(p, k, f, ok)
    \/ \E resp \in Responses : PushHashQuery(p, resp)
    \/ \E ok \in BOOLEAN : PushBuild(p, ok)
    \/ \E ok \in BOOLEAN : PushGetUploadUrl(p, ok)
    \/ \E ok \in BOOLEAN : PushUpload(p, ok)
    \/ \E ok \in BOOLEAN : PushConfirm(p, ok)

\* the steps of `lean cloud container pull` on a kind in K
PullStep(p, K) ==
    \/ \E k \in K, f \in BOOLEAN, c \in BOOLEAN : PullStart(p, k, f, c)
    \/ \E resp \in Responses, ok \in BOOLEAN : PullHashQuery(p, resp, ok)
    \/ \E ok \in BOOLEAN : PullGetDownloadUrl(p, ok)
    \/ \E resp \in DownloadResponses : PullDownload(p, resp)
    \/ \E ok \in BOOLEAN : PullVerifyLoad(p, ok)
    \/ \E ok \in BOOLEAN : PullSetCachedHash(p, ok)
    \/ \E ok \in BOOLEAN : PullCacheWrite(p, ok)

\* the steps of `lean cloud cli push`
CliStep(p) ==
    \/ \E f \in BOOLEAN, ok \in BOOLEAN : CliStart(p, f, ok)
    \/ \E resp \in HeadResponses, style \in HeaderStyles : CliHashQuery(p, resp, style)
    \/ \E o \in FsOrders : CliBuild(p, o)
    \/ \E ok \in BOOLEAN : CliUpload(p, ok)

Env ==
    \/ Tick
    \/ \E c \in Contents : RebuildImage("engine", c)
    \/ \E c \in Contents : EditSource(c)

\* One workstation running one command at a time.  Both container kinds run
\* the same code with container_type as a parameter; the commands of this
\* specification are issued for the engine kind.
Next == PushStep("p1", {"engine"}) \/ PullStep("p1", {"engine"}) \/ CliStep("p1") \/ Env

Spec == Init /\ [][Next]_vars

\* Two terminals of one workstation working on the engine container at the
\* same time: p1 pushes and pulls, p2 pushes; the steps of their commands
\* interleave at every remote call.
NextConc ==
    \/ PushStep("p1", {"engine"})
    \/ PullStep("p1", {"engine"})
    \/ PushStep("p2", {"engine"})
    \/ Tick

SpecConc == Init /\ [][NextConc]_vars

\* Two terminals of one workstation pulling the engine container at the same
\* time: both read and write the same cache file.
NextCache == PullStep("p1", {"engine"}) \/ PullStep("p2", {"engine"})

SpecCache == Init /\ [][NextCache]_vars

\* The archive builder on any source tree, run repeatedly while time passes.
InitBuild ==
    /\ s3_body = [k \in AllKinds |-> NoBytes]
    /\ advertised = [k \in AllKinds |-> NoneHash]
    /\ cache = [k \in Kinds |-> NoneHash]
    /\ image = [k \in Kinds |-> 1]
    /\ cli_src \in SUBSET FileUniverse
    /\ now = 0
    /\ inv = [p \in Procs |-> NoInvocation]
    /\ prev = [p \in Procs |-> Summary(NoInvocation)]
    /\ ops = 0
    /\ settled = [k \in AllKinds |-> TRUE]
    /\ disturbed = [p \in Procs |-> FALSE]
    /\ builds = << >>
    /\ transfer = NoTransfer
    /\ hashing = NoHashing
    /\ credentials = NoCredentials
    /\ conf = NoConf
    /\ logins = << >>

NextBuild ==
    \/ \E o \in FsOrders : CreateCliTarball(o)
    \/ Tick

SpecBuild == InitBuild /\ [][NextBuild]_vars

\* nothing is stored remotely or locally and no command runs
Idle ==
    /\ s3_body = [k \in AllKinds |-> NoBytes]
    /\ advertised = [k \in AllKinds |-> NoneHash]
    /\ cache = [k \in Kinds |-> NoneHash]
    /\ image = [k \in Kinds |-> 1]
    /\ cli_src = SourceTree(1)
    /\ now = 0
    /\ inv = [p \in Procs |-> NoInvocation]
    /\ prev = [p \in Procs |-> Summary(NoInvocation)]
    /\ ops = 0
    /\ settled = [k \in AllKinds |-> TRUE]
    /\ disturbed = [p \in Procs |-> FALSE]
    /\ builds = << >>

\* One transfer of a file of any size in chunks of any size: the upload
\* wrapper knows the file's size, a download knows the expected size the
\* remote supplied (the size of the object) or none.
InitProgress ==
    /\ Idle
    /\ transfer \in {t \in Transfers :
                        IF t.site = "upload" THEN t.expected = t.size
                        ELSE t.expected \in {0, t.size}}
    /\ hashing = NoHashing
    /\ credentials = NoCredentials
    /\ conf = NoConf
    /\ logins = << >>

SpecProgress == InitProgress /\ [][TransferChunk]_vars

\* One run of the hashing loop over a file of any content.
InitHash ==
    /\ Idle
    /\ transfer = NoTransfer
    /\ hashing \in HashRuns
    /\ credentials = NoCredentials
    /\ conf = NoConf
    /\ logins = << >>

SpecHash == InitHash /\ [][HashRead]_vars

\* One config command from any lean.json, any server config (or none) and
\* any stored user id and API token.
InitConfig ==
    /\ Idle
    /\ transfer = NoTransfer
    /\ hashing = NoHashing
    /\ credentials \in {cr \in [Options -> {None, Str(<< >>), Str(<<"7">>), Str(<<"t">>)}] :
                            /\ cr["user_id"] \in {None, Str(<< >>), Str(<<"7">>)}
                            /\ cr["api_token"] \in {None, Str(<<"t">>)}
                            /\ cr["data_server_url"] = None
                            /\ cr["data_server_api_key"] = None}
    /\ logins = << >>
    /\ conf \in {[NoConf EXCEPT !.lean_json = l, !.server = sv] :
                    l \in Configs,
                    sv \in {[exists |-> FALSE, config |-> EmptyDict]}
                           \cup {[exists |-> TRUE, config |-> c] : c \in Configs}}

NextConfig ==
    \/ \E ow \in BOOLEAN, mg \in BOOLEAN, dr \in BOOLEAN : ConfigPullStart(ow, mg, dr)
    \/ \E resp \in Responses : ConfigPullRequest(resp)
    \/ ConfigPullDiff
    \/ \E open_ok \in BOOLEAN : ConfigPullWrite(open_ok)
    \/ \E dr \in BOOLEAN : ConfigPushStart(dr)
    \/ \E resp \in Responses : ConfigPushPost(resp)

SpecConfig == InitConfig /\ [][NextConfig]_vars

\* Logins from any credentials storage: user id unset, empty, numeric or not
\* numeric; API token unset or set; URL and key unset or set.
InitLogin ==
    /\ Idle
    /\ transfer = NoTransfer
    /\ hashing = NoHashing
    /\ conf = NoConf
    /\ logins = << >>
    /\ credentials \in
           {[o \in Options |-> IF o = "user_id" THEN uid ELSE IF o = "api_token" THEN tok
                               ELSE IF o = "data_server_url" THEN u ELSE k] :
               uid \in {None, Str(<< >>), Str(<<"4", "2">>), Str(<<"a", "1">>)},
               tok \in {None, Str(<< >>), Str(<<"t">>)},
               u \in {None, Str(<< >>), Str(<<"u">>)},
               k \in {None, Str(<<"k">>)}}

NextLogin ==
    \E url \in UrlOptions, api_key \in KeyOptions, ut \in TypedLines, kt \in TypedLines :
        Login(url, api_key, ut, kt)

SpecLogin == InitLogin /\ [][NextLogin]_vars

\* One terminal running push, pull and cli push commands one after the other.
\* A command is one sequential flow of blocking calls: once a call has
\* returned (with a result, an error or a timeout) the command takes its next
\* step, so a command that has started and can step does step.  Starting a
\* command is the user's choice and is not forced.
CommandStep(p) == PushStep(p, {"engine"}) \/ PullStep(p, {"engine"}) \/ CliStep(p)

Proceed(p) == inv[p].pc # "idle" /\ CommandStep(p)

NextLive == PushStep("p1", {"engine"}) \/ PullStep("p1", {"engine"}) \/ CliStep("p1")

SpecLive == Init /\ [][NextLive]_vars /\ WF_vars(Proceed("p1"))

(* ------------------------------ properties ---------------------------- *)
IsPush(i) == i.op \in {"container_push", "cli_push"}
IsPull(i) == i.op = "container_pull"
\* the command has built (push) or verified (pull) and so computed a hash
Hashed(i) == i.content_hash # NoneHash
\* the command has ended
Ended(i) == i.pc = "idle" /\ i.outcome # "none"

\* C1: a push without --force whose hash query returned the hash it then
\* computes over the built archive ends as "already up to date" with no upload
\* call and no confirm call.
C1_PushSkipsWhenHashesEqual ==
    \A p \in Procs :
        LET i == inv[p]
        IN  (IsPush(i) /\ ~i.force /\ Hashed(i) /\ i.remote_hash = i.content_hash)
            => (Ended(i) /\ i.outcome = "skip" /\ i.uploads = 0 /\ i.confirms = 0)

C1_Witness ==
    \E p \in Procs :
        /\ inv[p].op = "container_push" /\ ~inv[p].force
        /\ inv[p].outcome = "skip" /\ inv[p].remote_hash = inv[p].content_hash

\* C2: a pull without --force that finds a cache entry equal to the remote
\* hash ends as up to date: no download, no runtime load, no cache write.
C2_PullSkipsWhenCacheEqual ==
    \A p \in Procs :
        LET i == inv[p]
        IN  (IsPull(i) /\ ~i.force /\ Truthy(i.remote_hash) /\ i.local_hash = i.remote_hash)
            => /\ Ended(i) /\ i.outcome = "uptodate"
               /\ i.downloads = 0 /\ i.loads = 0 /\ i.cache_writes = 0
               /\ cache[i.kind] = i.pre_cache

C2_Witness ==
    \E p \in Procs :
        /\ IsPull(inv[p]) /\ ~inv[p].force /\ inv[p].outcome = "uptodate"
        /\ Truthy(inv[p].local_hash) /\ inv[p].local_hash = inv[p].remote_hash

\* C3: two pushes in a row of the same unchanged source, without --force,
\* neither failing and nobody else writing: the first transfers once, the
\* second is skipped without a transfer.
C3_PushTwiceTransfersOnce ==
    \A p \in Procs :
        LET i == inv[p]
            q == prev[p]
        IN  ( /\ IsPush(i) /\ ~i.force /\ Ended(i) /\ i.outcome \in {"skip", "done"}
              /\ q.op = i.op /\ q.kind = i.kind /\ q.outcome = "done"
              /\ q.src = i.src /\ ~disturbed[p] )
            => (q.uploads = 1 /\ i.outcome = "skip" /\ i.uploads = 0)

\* C4: two builds of the same unchanged tree with the same rules give the same
\* bytes and the same digest, whatever the time and the enumeration order.
C4_BuildDeterministic ==
    \A a \in DOMAIN builds, b \in DOMAIN builds :
        /\ builds[a].bytes = builds[b].bytes
        /\ builds[a].content_hash = builds[b].content_hash

\* C5: a pull whose downloaded bytes do not hash to the remote hash obtained at
\* its start fails with the integrity error, never loads the image and leaves
\* the cache entry alone.
C5_CorruptDownloadRejected ==
    \A p \in Procs :
        LET i == inv[p]
        IN  ( /\ IsPull(i) /\ i.gz # NoBytes /\ i.pc # "verify"
              /\ content_hash_of(i.gz) # i.remote_hash )
            => /\ Ended(i) /\ i.outcome = "failed" /\ i.err = "integrity"
               /\ i.loads = 0 /\ i.cache_writes = 0

C5_Witness ==
    \E p \in Procs :
        /\ IsPull(inv[p]) /\ inv[p].gz # NoBytes
        /\ content_hash_of(inv[p].gz) # inv[p].remote_hash
        /\ inv[p].outcome = "failed" /\ inv[p].err = "integrity"

\* C6: an artifact pushed successfully and then pulled, with no push of the
\* kind running when the pull starts or writing while it runs, is pulled
\* successfully: the digest of the pulled bytes is the digest of the push.
C6_RoundTrip ==
    \A p \in Procs :
        LET i == inv[p]
        IN  ( /\ IsPull(i) /\ i.quiet_start /\ ~disturbed[p]
              /\ i.gz # NoBytes /\ i.pc # "verify" /\ ~i.truncated )
            => /\ i.content_hash = i.remote_hash
               /\ i.content_hash = advertised[i.kind]
               /\ i.err # "integrity"

\* C7: a push or pull that failed left the remote artifact of its kind (bytes
\* and advertised hash) and the local cache as they were when it started.
C7_NoPartialCommit ==
    \A p \in Procs :
        LET i == inv[p]
        IN  (Ended(i) /\ i.outcome = "failed" /\ ~disturbed[p])
            => /\ s3_body[i.kind] = i.pre_body
               /\ advertised[i.kind] = i.pre_adv
               /\ (i.kind \in Kinds => cache[i.kind] = i.pre_cache)

\* C8: in every observable state the hash the remote advertises for a kind is
\* the digest of the bytes a download of that kind returns.
C8_AtomicReplace ==
    \A k \in AllKinds :
        advertised[k] # NoneHash => advertised[k] = content_hash_of(s3_body[k])

\* C9: when two pushes of a kind have both completed, the remote is
\* consistent: its hash is the one confirmed last and its bytes have that digest.
C9_BenignRace ==
    ( /\ \A p \in Procs : inv[p].op = "container_push" /\ Ended(inv[p])
                          /\ inv[p].outcome = "done"
      /\ inv["p1"].kind = inv["p2"].kind )
    => LET k == inv["p1"].kind
       IN  /\ advertised[k] \in {inv[p].content_hash : p \in Procs}
           /\ content_hash_of(s3_body[k]) = advertised[k]

\* C10: a push without --force that ends without failure made no upload when
\* the remote hash equalled its computed hash, and otherwise exactly one
\* upload after which the remote hash is the computed hash (so abc123 on an
\* empty remote, abc123, def456 make 1, 0, 1 uploads).
C10_UploadsFollowHashChange ==
    \A p \in Procs :
        LET i == inv[p]
        IN  ( /\ IsPush(i) /\ ~i.force /\ Ended(i) /\ i.outcome \in {"skip", "done"}
              /\ ~disturbed[p] )
            => IF i.pre_adv = i.content_hash
               THEN i.uploads = 0 /\ advertised[i.kind] = i.content_hash
               ELSE i.uploads = 1 /\ advertised[i.kind] = i.content_hash

\* C11: a pull whose hash query is answered "no container of this type"
\* (404) ends without error as "nothing to pull": no download, no runtime
\* load, the cache file neither read nor written.
C11_NotFoundPullEndsQuietly ==
    \A p \in Procs :
        LET i == inv[p]
        IN  (IsPull(i) /\ i.answer = "not_found")
            => /\ Ended(i) /\ i.outcome = "nothing" /\ i.err = "none"
               /\ i.downloads = 0 /\ i.loads = 0
               /\ i.cache_reads = 0 /\ i.cache_writes = 0
               /\ cache[i.kind] = i.pre_cache

C11_Witness ==
    \E p \in Procs :
        /\ IsPull(inv[p]) /\ inv[p].answer = "not_found" /\ inv[p].outcome = "nothing"
        /\ inv[p].hash_queries = 1

\* C12: the direct-store hash query reports "not found" (None) only for a 404
\* answer; a query that failed (exception, other non-2xx status) is raised,
\* so the command that made it fails there.
C12_NotFoundOnlyOn404 ==
    \A p \in Procs :
        LET i == inv[p]
        IN  (i.op = "cli_push" /\ i.answer = "failure")
            => (Ended(i) /\ i.outcome = "failed" /\ i.err = "transport" /\ ~Hashed(i))

\* C13: a push without --force whose hash query is answered not-found goes on
\* with no remote hash; one whose hash query fails in any other way ends in
\* failure with nothing built and nothing uploaded.
C13_PushHashQueryOutcomes ==
    \A p \in Procs :
        LET i == inv[p]
        IN  (IsPush(i) /\ ~i.force)
            => /\ i.answer = "not_found"
                    => (i.remote_hash = NoneHash /\ ~(i.err = "transport" /\ ~Hashed(i)))
               /\ i.answer = "failure"
                    => /\ Ended(i) /\ i.outcome = "failed"
                       /\ ~Hashed(i) /\ i.gz = NoBytes /\ i.uploads = 0

\* C14: a command one of whose remote calls failed with a transport error has
\* ended in failure and made no call that comes after the failed one.
C14_TransportErrorIsFatal ==
    \A p \in Procs :
        LET i == inv[p]
        IN  (i.failed_call # "none")
            => /\ Ended(i) /\ i.outcome = "failed"
               /\ i.failed_call \in {"hash", "url"} => (i.uploads = 0 /\ i.confirms = 0)
               /\ i.failed_call = "put" => i.confirms = 0
               /\ i.failed_call \in {"hash", "dlurl"} => i.downloads = 0
               /\ i.failed_call \in {"hash", "dlurl", "get"}
                    => (i.loads = 0 /\ i.cache_writes = 0)

\* C15: in a pull the image is loaded into the runtime only after the download
\* finished and the digest of the downloaded file equalled the remote hash,
\* and the cache file is written only after the load succeeded.
C15_PullOrdering ==
    \A p \in Procs :
        LET i == inv[p]
        IN  IsPull(i)
            => /\ i.loads > 0 => /\ i.downloads = 1 /\ i.gz # NoBytes
                                 /\ content_hash_of(i.gz) = i.remote_hash
               /\ (i.pc \in {"cache", "cache_write"} \/ i.cache_writes > 0)
                    => (i.loads = 1 /\ i.installed)

C15_Witness ==
    \E p \in Procs :
        /\ IsPull(inv[p]) /\ inv[p].outcome = "done"
        /\ inv[p].loads = 1 /\ inv[p].installed /\ inv[p].cache_writes = 1

\* C16: after a pull that transferred successfully the cache entry is the
\* remote hash that pull obtained, and the pull right after it, without
\* --force and answered by an unchanged remote, is up to date without a download.
C16_CacheFollowsPull ==
    \A p \in Procs :
        LET i == inv[p]
            q == prev[p]
        IN  /\ (IsPull(i) /\ Ended(i) /\ i.outcome = "done")
                => (Truthy(i.remote_hash) /\ cache[i.kind] = i.remote_hash)
            /\ ( /\ IsPull(i) /\ ~i.force /\ i.answer = "found" /\ ~disturbed[p]
                  /\ q.op = "container_pull" /\ q.kind = i.kind /\ q.outcome = "done" )
                => (Ended(i) /\ i.outcome = "uptodate" /\ i.downloads = 0)

C16_Witness ==
    \E p \in Procs :
        /\ IsPull(inv[p]) /\ ~inv[p].force /\ inv[p].outcome = "uptodate"
        /\ prev[p].op = "container_pull" /\ prev[p].outcome = "done"
        /\ prev[p].downloads = 1

\* C17: a pull that failed changed neither the image in the runtime (it
\* loaded no image that differs from the one present at its start) nor the
\* cache entry of its kind.
C17_FailedPullAppliesNothing ==
    \A p \in Procs :
        LET i == inv[p]
        IN  (IsPull(i) /\ Ended(i) /\ i.outcome = "failed")
            => /\ ~(i.installed /\ docker_load(gzip_read(i.gz)) # i.pre_image)
               /\ i.cache_writes = 0 /\ cache[i.kind] = i.pre_cache

\* C18: a pull with --check-only never reaches the download: no download
\* call, no runtime load, the cache entry as it was.
C18_CheckOnlyNeverTransfers ==
    \A p \in Procs :
        LET i == inv[p]
        IN  (IsPull(i) /\ i.check_only)
            => /\ i.pc \in {"idle", "hash"}
               /\ i.downloads = 0 /\ i.loads = 0 /\ i.cache_writes = 0
               /\ cache[i.kind] = i.pre_cache

C18_Witness ==
    \E p \in Procs :
        /\ IsPull(inv[p]) /\ inv[p].check_only /\ inv[p].outcome = "update_available"
        /\ inv[p].local_hash # inv[p].remote_hash

\* C19: a pull with --check-only that got the remote hash reports "update
\* available" exactly when the cached hash is absent or differs from the
\* remote hash, with or without --force.
C19_CheckOnlyReportsByComparison ==
    \A p \in Procs :
        LET i == inv[p]
        IN  (IsPull(i) /\ i.check_only /\ Ended(i) /\ i.answer = "found")
            => (i.outcome = "update_available" <=> i.local_hash # i.remote_hash)

\* C20: a pull that ended as up to date, as "update available" or as "nothing
\* to pull" queried the remote hash in that invocation, and "up to date" was
\* decided against the hash the remote served.
C20_CacheIsAdvisory ==
    \A p \in Procs :
        LET i == inv[p]
        IN  (IsPull(i) /\ Ended(i) /\ i.outcome \in {"uptodate", "update_available", "nothing"})
            => /\ i.hash_queries = 1 /\ i.answer \in {"found", "not_found"}
               /\ i.outcome = "uptodate"
                    => /\ i.answer = "found" /\ Truthy(i.served_hash)
                       /\ i.remote_hash = i.served_hash
                       /\ i.local_hash = i.served_hash

C20_Witness ==
    \E p \in Procs :
        /\ IsPull(inv[p]) /\ inv[p].outcome = "uptodate" /\ inv[p].hash_queries = 1
        /\ Truthy(inv[p].pre_cache) /\ inv[p].served_hash = inv[p].pre_cache

\* C21: the cache entry is written only by a pull that succeeded: after any
\* command that ended otherwise (a push, or a pull that ended as nothing to
\* pull, up to date, update available or failed) the cache entry of its kind
\* is the one it started with, and a pull never touches the entry of the
\* other kind.
C21_CacheWrittenOnlyBySuccessfulPull ==
    \A p \in Procs :
        LET i == inv[p]
        IN  /\ (Ended(i) /\ i.kind \in Kinds /\ ~(IsPull(i) /\ i.outcome = "done"))
                => cache[i.kind] = i.pre_cache
            /\ IsPull(i) => \A k \in Kinds \ {i.kind} : cache[k] = NoneHash

\* C22: a pull that reads the cache file while another pull is writing it
\* gets the complete old hash (or no file) or the complete new hash, never the
\* empty string.
C22_CacheWriteAtomic ==
    \A p \in Procs :
        LET i == inv[p]
        IN  (IsPull(i) /\ i.cache_reads > 0 /\ i.concurrent_write)
            => i.local_hash # EmptyHash

\* C23: in a container push the confirm call is made only after the upload
\* URL was obtained and the PUT of the file succeeded, at most once, with the
\* hash computed over the uploaded file and that file's size; a push whose
\* upload failed never confirms.
C23_ConfirmAfterUpload ==
    \A p \in Procs :
        LET i == inv[p]
        IN  i.op = "container_push"
            => /\ i.confirms <= 1
               /\ (i.pc = "confirm" \/ i.confirms > 0)
                    => (i.uploads = 1 /\ i.failed_call \notin {"hash", "url", "put"})
               /\ i.confirms > 0
                    => (i.sent_hash = content_hash_of(i.gz) /\ i.sent_size = Len(i.gz))
               /\ i.failed_call = "put" => i.confirms = 0

C23_Witness ==
    \E p \in Procs :
        /\ inv[p].op = "container_push" /\ inv[p].outcome = "done"
        /\ inv[p].uploads = 1 /\ inv[p].confirms = 1
        /\ inv[p].sent_hash = content_hash_of(s3_body[inv[p].kind])

\* C24: no command repeats a remote call: a push makes at most one hash query,
\* one upload and one confirm, a pull at most one hash query and one download,
\* also when the call fails.
C24_NoRetry ==
    \A p \in Procs :
        LET i == inv[p]
        IN  /\ i.hash_queries <= 1 /\ i.uploads <= 1 /\ i.confirms <= 1
            /\ i.downloads <= 1
            /\ i.force /\ IsPush(i) => i.hash_queries = 0

C24_Witness ==
    \E p \in Procs :
        /\ inv[p].op = "container_push" /\ inv[p].outcome = "failed"
        /\ inv[p].failed_call = "put" /\ inv[p].hash_queries = 1 /\ inv[p].uploads = 1

\* the arcnames in the archive of the j-th builder run
ArchiveNames(j) == tar_getnames(gzip_read(builds[j].bytes))

\* a rule matches a name by exact name, or by suffix when it is "*suffix"
RuleMatches(rule, name) ==
    IF rule.star THEN rule.text.base = "" /\ name.suf = rule.text.suf
    ELSE name = rule.text

\* the files the builder enumerates below an included directory
Enumerated ==
    {f \in cli_src : /\ Len(f.path) > 1
                     /\ \E k \in 1..Len(include_patterns) : include_patterns[k] = f.path[1]}

\* C25: with the shipped rule list, no file under a directory named build
\* and no file whose name ends in .pyc is in a built archive.
C25_ShippedExclusions ==
    \A j \in 1..Len(builds) :
        LET names == ArchiveNames(j)
        IN  \A k \in 1..Len(names) :
                /\ \A a \in 1..(Len(names[k]) - 1) : names[k][a] # N("build", "")
                /\ names[k][Len(names[k])].suf # ".pyc"

\* C26: every regular file under lean/ whose leaf name and ancestor names
\* match no exclusion rule is in the built archive exactly once, under its
\* path relative to the root.
C26_InclusionCorrect ==
    \A j \in 1..Len(builds) :
        LET names == ArchiveNames(j)
        IN  \A f \in cli_src :
                (/\ Len(f.path) > 1 /\ f.path[1] = Lean
                 /\ \A a \in 1..Len(f.path) :
                        \A rule \in exclude_patterns : ~RuleMatches(rule, f.path[a]))
                => Cardinality({k \in 1..Len(names) : names[k] = f.path}) = 1

C26_Witness ==
    /\ Len(builds) > 0
    /\ \E f \in cli_src : f.path = <<Lean, N("build", ""), N("main", ".py")>>
    /\ \E k \in 1..Len(ArchiveNames(1)) : ArchiveNames(1)[k] = <<Lean, N("main", ".py")>>
    /\ \E k \in 1..Len(ArchiveNames(1)) : ArchiveNames(1)[k] = <<Lean, N("util", ".py")>>

\* C27: a file enumerated under an included directory is dropped from the
\* archive if and only if its leaf name or the name of one of its ancestor
\* directories matches a rule (exact name, or suffix for a "*suffix" rule).
C27_ExclusionEveryComponent ==
    \A j \in 1..Len(builds) :
        LET names == ArchiveNames(j)
        IN  \A f \in Enumerated :
                (\A k \in 1..Len(names) : names[k] # f.path)
                <=> \E a \in 1..Len(f.path) :
                        \E rule \in exclude_patterns : RuleMatches(rule, f.path[a])

C27_Witness ==
    /\ Len(builds) > 0
    /\ {<<Lean, N("pkg", ".egg-info"), N("util", ".py")>>, <<Lean, N("", ".pyc")>>,
        <<Lean, N("build", ""), Lean, N("util", ".py")>>, <<Lean, N("main", ".py")>>}
            \subseteq {f.path : f \in cli_src}
    /\ {ArchiveNames(1)[k] : k \in 1..Len(ArchiveNames(1))}
            \cap {f.path : f \in Enumerated} = {<<Lean, N("main", ".py")>>}

\* C28: on a transfer with known expected size every chunk that moves the
\* percentage across a multiple of ten produces a progress report, also when
\* it does not land on the multiple; with unknown expected size nothing is
\* reported and the transfer reads the whole file.
C28_ProgressAtEveryBoundary ==
    /\ transfer.expected # 0
        => \A k \in 1..Len(transfer.percents) :
               LET before == IF k = 1 THEN 0 ELSE transfer.percents[k - 1]
                   after  == transfer.percents[k]
               IN  after \div 10 > before \div 10
                   => \E r \in 1..Len(transfer.reports) :
                          before < transfer.reports[r] /\ transfer.reports[r] <= after
    /\ (transfer.site # "none" /\ transfer.expected = 0)
        => (transfer.reports = << >> /\ (transfer.done => transfer.bytes = transfer.size))

\* C30: the digest of the chunked hashing loop of push and of pull
\* verification equals the digest of the whole byte sequence taken at once.
C30_DigestIndependentOfChunking ==
    hashing.done
    => /\ hexdigest(hashing.h) = hexdigest(sha256_update(sha256_new, hashing.data))
       /\ hexdigest(hashing.h) = content_hash_of(hashing.data)

C30_Witness ==
    /\ hashing.done /\ hashing.site = "container_pull"
    /\ Len(hashing.data) > 2 * ChunkSize
    /\ hashing.data[1] # hashing.data[Len(hashing.data)]
    /\ hashing.pos = Len(hashing.data)

\* C29: a download for which the remote supplied an expected size and that
\* received a different number of bytes ends with a size-mismatch error,
\* distinct from the hash-mismatch error, instead of returning successfully.
C29_SizeMismatchFails ==
    \A p \in Procs :
        LET i == inv[p]
        IN  ( /\ IsPull(i) /\ i.downloads > 0 /\ i.failed_call # "get"
              /\ i.expected_size # 0 /\ i.gz # NoBytes
              /\ Len(i.gz) # i.expected_size )
            => (i.outcome = "failed" /\ i.err = "size")

\* C31: a config pull that the server answers with not-found ends as
\* "nothing to pull", which is not a failure, and leaves lean.json unchanged.
C31_ConfigNotFoundRecoverable ==
    (conf.op = "config_pull" /\ conf.answer = "not_found")
    => /\ conf.outcome = "nothing_to_pull"
       /\ conf.lean_json = conf.pre_json

\* C32: config pull writes lean.json only with --overwrite or --merge, without
\* --dry-run, when the configs differ, and after the diff was computed; in
\* every other case lean.json is left as it was.
C32_ConfigPullWritesOnlyWhenAsked ==
    conf.op = "config_pull"
    => /\ (conf.pc = "write" \/ conf.writes > 0 \/ conf.lean_json # conf.pre_json)
            => /\ conf.overwrite \/ conf.merge
               /\ ~conf.dry_run
               /\ conf.diffed
               /\ conf.pre_json # conf.server.config
       /\ conf.outcome \in {"no_changes", "dry_run", "shown"}
            => (conf.writes = 0 /\ conf.lean_json = conf.pre_json)

C32_Witness ==
    /\ conf.op = "config_pull" /\ conf.outcome = "shown"
    /\ ~conf.overwrite /\ ~conf.merge /\ ~conf.dry_run
    /\ conf.server.exists /\ conf.server.config # conf.pre_json
    /\ conf.lean_json = conf.pre_json

\* C39: --merge writes a config in which every server key has the server's
\* value and every key only in lean.json keeps its value; --overwrite writes
\* the server config; both flags together are rejected before the server is
\* contacted and lean.json is unchanged.
C39_ConfigPullMergeOverwrite ==
    conf.op = "config_pull"
    => /\ (conf.outcome = "done" /\ conf.merge)
            => /\ DOMAIN conf.lean_json = DOMAIN conf.pre_json \cup DOMAIN conf.server.config
               /\ \A k \in DOMAIN conf.server.config : conf.lean_json[k] = conf.server.config[k]
               /\ \A k \in DOMAIN conf.pre_json \ DOMAIN conf.server.config :
                      conf.lean_json[k] = conf.pre_json[k]
       /\ (conf.outcome = "done" /\ conf.overwrite) => conf.lean_json = conf.server.config
       /\ (conf.overwrite /\ conf.merge)
            => /\ conf.outcome = "failed" /\ conf.err = "usage"
               /\ conf.requests = 0 /\ conf.lean_json = conf.pre_json

C39_Witness ==
    /\ conf.op = "config_pull" /\ conf.outcome = "done" /\ conf.merge
    /\ \E k \in DOMAIN conf.pre_json \cap DOMAIN conf.server.config :
           conf.pre_json[k] # conf.server.config[k]
    /\ DOMAIN conf.pre_json \ DOMAIN conf.server.config # {}

\* C40: in the config that config push sends, a credential key keeps the
\* value of lean.json whenever lean.json has a non-empty value for it; the
\* stored credential is used only when the key is missing or the empty string
\* in lean.json and the stored credential is non-empty; with --dry-run no
\* request is sent.
C40_ConfigPushCredentials ==
    conf.op = "config_push"
    => /\ \A key \in {"job-user-id", "api-access-token"} :
              LET stored == IF key = "job-user-id" THEN conf.pre_credentials["user_id"]
                            ELSE conf.pre_credentials["api_token"]
                  in_json == key \in DOMAIN conf.pre_json
              IN  /\ (in_json /\ conf.pre_json[key] # Str(<< >>))
                       => (key \in DOMAIN conf.config_data
                           /\ conf.config_data[key] = conf.pre_json[key])
                  /\ (key \in DOMAIN conf.config_data
                       /\ ~(in_json /\ conf.config_data[key] = conf.pre_json[key]))
                       => /\ ~in_json \/ conf.pre_json[key] = Str(<< >>)
                          /\ stored.t = "str" /\ stored.v # << >>
                          /\ conf.config_data[key] = stored
       /\ conf.dry_run => (conf.requests = 0 /\ conf.outcome = "dry_run")
       /\ conf.outcome = "done" => conf.server.config = conf.config_data

C40_Witness ==
    /\ conf.op = "config_push" /\ conf.outcome = "done"
    /\ "job-user-id" \in DOMAIN conf.pre_json /\ conf.pre_json["job-user-id"] = Str(<<"a">>)
    /\ conf.pre_credentials["user_id"] = Str(<<"7">>)
    /\ {"api-access-token", "job-user-id"} \subseteq DOMAIN conf.server.config
    /\ conf.server.config["api-access-token"] = Str(<<"t">>)
    /\ conf.server.config["job-user-id"] = Str(<<"a">>)

\* C33: after a login the stored URL and API key are the values supplied as
\* options or typed at the prompt; when no URL is given and the prompt is
\* answered with an empty line the stored URL is the one stored before or,
\* if there was none, http://0.0.0.0:5067.
C33_LoginStoresSupplied ==
    \A n \in 1..Len(logins) :
        LET l == logins[n]
            old_url == l.before["data_server_url"]
        IN  /\ l.url # None => l.after["data_server_url"] = l.url
            /\ (l.url = None /\ l.url_typed # << >>)
                 => l.after["data_server_url"] = Str(l.url_typed)
            /\ (l.url = None /\ l.url_typed = << >>)
                 => l.after["data_server_url"] =
                        IF old_url.t = "str" /\ old_url.v # << >> THEN old_url
                        ELSE Str(<<"http://0.0.0.0:5067">>)
            /\ l.api_key # None => l.after["data_server_api_key"] = l.api_key
            /\ (l.api_key = None /\ l.key_typed # << >>)
                 => l.after["data_server_api_key"] = Str(l.key_typed)
            /\ (n = Len(logins)) => credentials = l.after

C33_Witness ==
    /\ Len(logins) = 2
    /\ logins[1].url = None /\ logins[1].url_typed = << >>
    /\ logins[1].before["data_server_url"] = Str(<<"u">>)
    /\ logins[2].url = Str(<<"v">>) /\ logins[2].api_key = None
    /\ logins[2].key_typed = <<"w">>
    /\ credentials["data_server_url"] = Str(<<"v">>)
    /\ credentials["data_server_api_key"] = Str(<<"w">>)

\* C34: after every login the stored user id is a numeric string ("0" when
\* it was unset or not all digits, unchanged when numeric) and an API token
\* is stored ("placeholder" only when none was stored, an existing one is
\* kept); a second login with the same inputs changes nothing.
C34_LoginDefaults ==
    \A n \in 1..Len(logins) :
        LET l == logins[n]
            uid == l.before["user_id"]
            tok == l.before["api_token"]
            numeric(x) == /\ x.t = "str" /\ x.v # << >>
                          /\ \A i \in 1..Len(x.v) : x.v[i] \in Digits
        IN  /\ numeric(l.after["user_id"])
            /\ l.after["user_id"] = IF numeric(uid) THEN uid ELSE Str(<<"0">>)
            /\ l.after["api_token"] # None
            /\ l.after["api_token"] = IF tok = None THEN Str(<<"placeholder">>) ELSE tok
            /\ (n > 1 /\ logins[n - 1].url = l.url /\ logins[n - 1].api_key = l.api_key
                 /\ logins[n - 1].url_typed = l.url_typed
                 /\ logins[n - 1].key_typed = l.key_typed)
                 => l.after = logins[n - 1].after

C34_Witness ==
    /\ Len(logins) = 2
    /\ logins[1].before["user_id"] = Str(<<"a", "1">>)
    /\ logins[1].before["api_token"] = None
    /\ logins[1].url = None /\ logins[1].url_typed = << >>
    /\ logins[2].url = None /\ logins[2].url_typed = << >>
    /\ logins[1].api_key = logins[2].api_key /\ logins[1].key_typed = logins[2].key_typed
    /\ credentials["user_id"] = Str(<<"0">>)
    /\ credentials["api_token"] = Str(<<"placeholder">>)

\* C35: a push with --force never queries the remote hash and, unless a step
\* fails, uploads exactly once, also when the remote already holds an
\* artifact with the computed hash.
C35_ForcePushAlwaysUploads ==
    \A p \in Procs :
        LET i == inv[p]
        IN  (IsPush(i) /\ i.force)
            => /\ i.hash_queries = 0
               /\ i.outcome # "skip"
               /\ (Ended(i) /\ i.outcome # "failed") => (i.outcome = "done" /\ i.uploads = 1)

C35_Witness ==
    \E p \in Procs :
        /\ IsPush(inv[p]) /\ inv[p].force /\ inv[p].outcome = "done"
        /\ inv[p].uploads = 1 /\ inv[p].hash_queries = 0
        /\ Truthy(inv[p].pre_adv) /\ inv[p].pre_adv = inv[p].content_hash

\* C36: a pull with --force and without --check-only of a kind the remote
\* holds downloads, verifies and installs exactly once unless a step fails,
\* also when the cached hash equals the remote hash; a pull that finds no
\* cache entry never ends as up to date.
C36_ForcePullAlwaysInstalls ==
    \A p \in Procs :
        LET i == inv[p]
        IN  /\ (IsPull(i) /\ i.force /\ ~i.check_only /\ i.answer = "found")
                => /\ i.outcome # "uptodate"
                   /\ (Ended(i) /\ i.outcome # "failed")
                        => /\ i.outcome = "done"
                           /\ i.downloads = 1 /\ i.loads = 1 /\ i.installed
                           /\ i.content_hash = i.remote_hash
            /\ (IsPull(i) /\ i.cache_reads > 0 /\ i.local_hash = NoneHash)
                => i.outcome # "uptodate"

C36_Witness ==
    \E p \in Procs :
        /\ IsPull(inv[p]) /\ inv[p].force /\ ~inv[p].check_only /\ inv[p].outcome = "done"
        /\ Truthy(inv[p].local_hash) /\ inv[p].local_hash = inv[p].remote_hash
        /\ inv[p].downloads = 1 /\ inv[p].loads = 1

\* C37: on the direct-store backend a hash query that the store answers for
\* an existing object returns the hash stored by the last successful upload
\* (never None), whatever the letter case of the echoed metadata header names.
C37_HashQueryAfterPush ==
    \A p \in Procs :
        LET i == inv[p]
        IN  (i.op = "cli_push" /\ i.hash_queries > 0 /\ i.answer = "found")
            => (Truthy(i.remote_hash) /\ i.remote_hash = i.served_hash)

\* C38: every push and pull invocation terminates: while each call returns,
\* a started command eventually ends; it ends with exactly one outcome, set at
\* the moment it ends, among skip / up to date (for a check-only pull: the
\* report of the comparison), nothing to pull, done and failed; and once it
\* has ended it takes no further step: the next change of the terminal is the
\* start of a new command.
TerminalOutcomes == {"skip", "uptodate", "update_available", "nothing", "done", "failed"}

====
